---- MODULE Spec2Model ----
(***************************************************************************)
(* Model of the termination handler: the Run supervisor of the three       *)
(* provider handlers (aws, gcp, azure), the polling loop they drive with   *)
(* wait.PollImmediateUntil, and the node condition reconciliation of       *)
(* markNodeForDeletion / addNodeTerminationCondition.                      *)
(***************************************************************************)
EXTENDS Integers, Sequences, FiniteSets, TLC

\* ------------------------------------------------------------------ bounds
MaxProbes == 3      \* probes issued in one run
MaxConds == 3       \* length of a node's condition sequence (SpecMerge)
MaxTime == 2        \* clock values metav1.Now() can take (old stamps are 0)
MaxMerges == 2      \* successive reconciliations against one node (SpecMerge)

\* --------------------------------------------------------------- constants
Variants == {"aws", "gcp", "azure"}
terminatingConditionType == "Terminating"
terminationRequestedReason == "TerminationRequested"
terminationMessage == "The cloud provider has marked this instance for termination"
preemptEventType == "Preempt"
StatusOK == 200
StatusNotFound == 404
\* Variant with an unbuffered errs channel.
ErrsCapacity_Unbuffered == Len(<<>>)

ErrsCapacity == 1

Times == 1..MaxTime

VARIABLES
    variant,        \* which handler NewHandler built
    stop,           \* the stop channel is closed
    ctxDone,        \* cancel() has been called on ctx
    errs,           \* buffer of the errs channel
    wg,             \* WaitGroup counter
    runPC,          \* position of Run
    runBranch,      \* select branch Run took
    runResult,      \* value Run returned
    runReturns,     \* number of times Run returned
    gPC,            \* position of the background goroutine
    gResult,        \* value h.run returned
    hist,           \* responses of the completed probes, in order
    probes,         \* probes issued
    ticks,          \* interval ticks consumed by the loop
    probesAfterDone,\* probes issued after cancel() was called
    stopEarly,      \* stop fired while no probe had reported terminating
    reconcileCalls, \* calls of markNodeForDeletion
    gets,           \* client.Get calls
    updates,        \* Status().Update calls
    nodeConds,      \* node.Status.Conditions held by the API server
    fetched,        \* conditions as returned by the last client.Get
    node,           \* local node conditions after addNodeTerminationCondition
    mergeTime       \* value of metav1.Now() in the last merge

vars == <<variant, stop, ctxDone, errs, wg, runPC, runBranch, runResult,
          runReturns, gPC, gResult, hist, probes, ticks, probesAfterDone,
          stopEarly, reconcileCalls, gets, updates, nodeConds, fetched, node,
          mergeTime>>

handlerVars == <<variant, stop, ctxDone, errs, wg, runPC, runBranch, runResult,
                 runReturns, gPC, gResult, hist, probes, ticks,
                 probesAfterDone, stopEarly, gets, updates>>

\* ------------------------------------------------------------- conditions
Cond(t, s, r, m, hb, tr) ==
    [type |-> t, status |-> s, reason |-> r, message |-> m,
     lastHeartbeatTime |-> hb, lastTransitionTime |-> tr]

ReadyCond == Cond("Ready", "True", "KubeletReady", "kubelet is posting ready status", 0, 0)
DiskPressureCond == Cond("DiskPressure", "False", "KubeletHasNoDiskPressure", "kubelet has no disk pressure", 0, 0)
OldTerminating(s) == Cond(terminatingConditionType, s, "Earlier", "set earlier", 0, 0)

CondPool == {ReadyCond, DiskPressureCond} \cup
            {OldTerminating(s) : s \in {"True", "False", "Unknown"}}

SeqsUpTo(S, n) == UNION {[1..k -> S] : k \in 0..n}
AllCondSeqs == SeqsUpTo(CondPool, MaxConds)

ScenarioNodes == {<<ReadyCond, DiskPressureCond>>,
                  <<ReadyCond, OldTerminating("False"), DiskPressureCond>>,
                  <<OldTerminating("True")>>}

nodeHasTerminationCondition(conds) ==
    \E i \in 1..Len(conds) : conds[i].type = terminatingConditionType

terminatingCondition(now) ==
    Cond(terminatingConditionType, "True", terminationRequestedReason,
         terminationMessage, now, now)

\* Variant that rewrites a Terminating condition whatever its status.
mergeCondition_AlwaysReplace(condition, now) ==
    IF condition.type # terminatingConditionType THEN condition
    ELSE terminatingCondition(now)

mergeCondition(condition, now) ==
    IF condition.type # terminatingConditionType THEN condition
    ELSE IF condition.status = "True" THEN condition
    ELSE terminatingCondition(now)

\* Variant whose loop forgets to copy the conditions of other types.
addNodeTerminationCondition_DropsOthers(conds, now) ==
    IF ~nodeHasTerminationCondition(conds)
    THEN Append(conds, terminatingCondition(now))
    ELSE LET kept == SelectSeq(conds, LAMBDA c : c.type = terminatingConditionType)
         IN [i \in 1..Len(kept) |-> mergeCondition(kept[i], now)]

\* Variant that drops the stale Terminating conditions and appends the new one.
addNodeTerminationCondition_MovesToEnd(conds, now) ==
    IF ~nodeHasTerminationCondition(conds)
    THEN Append(conds, terminatingCondition(now))
    ELSE IF \E i \in 1..Len(conds) :
              conds[i].type = terminatingConditionType /\ conds[i].status # "True"
         THEN Append(SelectSeq(conds, LAMBDA c : c.type # terminatingConditionType \/ c.status = "True"),
                     terminatingCondition(now))
         ELSE conds

\* Variant that puts the new condition in front.
addNodeTerminationCondition_Prepends(conds, now) ==
    IF ~nodeHasTerminationCondition(conds)
    THEN <<terminatingCondition(now)>> \o conds
    ELSE [i \in 1..Len(conds) |-> mergeCondition(conds[i], now)]

addNodeTerminationCondition(conds, now) ==
    IF ~nodeHasTerminationCondition(conds)
    THEN Append(conds, terminatingCondition(now))
    ELSE [i \in 1..Len(conds) |-> mergeCondition(conds[i], now)]

\* ------------------------------------------------------------------ probes
Resp(n, s, r, b) == [net |-> n, status |-> s, read |-> r, body |-> b]

BodyEmptyObject == "{}"
BodyNoEvents == "{\"Events\":[]}"
BodyReboot == "{\"Events\":[{\"EventType\":\"Reboot\"}]}"
BodyPreempt == "{\"Events\":[{\"EventType\":\"Preempt\"}]}"
BodyRebootPreempt == "{\"Events\":[{\"EventType\":\"Reboot\"},{\"EventType\":\"Preempt\"}]}"
BodyMalformed == "<html>"

\* json.Unmarshal into scheduledEvents: ok and the decoded Events
Unmarshal(body) ==
    CASE body = BodyEmptyObject -> [ok |-> TRUE, Events |-> <<>>]
      [] body = BodyNoEvents -> [ok |-> TRUE, Events |-> <<>>]
      [] body = BodyReboot -> [ok |-> TRUE, Events |-> <<"Reboot">>]
      [] body = BodyPreempt -> [ok |-> TRUE, Events |-> <<"Preempt">>]
      [] body = BodyRebootPreempt -> [ok |-> TRUE, Events |-> <<"Reboot", "Preempt">>]
      [] OTHER -> [ok |-> FALSE, Events |-> <<>>]

Responses(v) ==
    CASE v = "aws" ->
           {Resp(FALSE, 0, TRUE, "")} \cup
           {Resp(TRUE, s, TRUE, "") : s \in {StatusOK, 204, StatusNotFound, 500}}
      [] v = "gcp" ->
           {Resp(FALSE, 0, TRUE, ""), Resp(TRUE, StatusOK, FALSE, "")} \cup
           {Resp(TRUE, StatusOK, TRUE, b) : b \in {"TRUE", "FALSE", "true"}}
      [] v = "azure" ->
           {Resp(FALSE, 0, TRUE, ""), Resp(TRUE, StatusOK, FALSE, "")} \cup
           {Resp(TRUE, StatusOK, TRUE, b) :
              b \in {BodyEmptyObject, BodyNoEvents, BodyReboot, BodyPreempt, BodyRebootPreempt, BodyMalformed}}

Outcome(d, e) == [done |-> d, err |-> e]

\* Variant that takes every status but 200 as "not yet".
awsCondition_DefaultContinues(resp) ==
    IF ~resp.net THEN Outcome(FALSE, TRUE)
    ELSE IF resp.status = StatusOK THEN Outcome(TRUE, FALSE)
    ELSE Outcome(FALSE, FALSE)

awsCondition(resp) ==
    IF ~resp.net THEN Outcome(FALSE, TRUE)
    ELSE CASE resp.status = StatusNotFound -> Outcome(FALSE, FALSE)
           [] resp.status = StatusOK -> Outcome(TRUE, FALSE)
           [] OTHER -> Outcome(FALSE, TRUE)

gcpCondition(resp) ==
    IF ~resp.net THEN Outcome(FALSE, TRUE)
    ELSE IF ~resp.read THEN Outcome(FALSE, TRUE)
    ELSE IF resp.body = "TRUE" THEN Outcome(TRUE, FALSE)
    ELSE Outcome(FALSE, FALSE)

\* Variant that looks at the first event only.
azureCondition_FirstEventOnly(resp) ==
    IF ~resp.net THEN Outcome(FALSE, TRUE)
    ELSE IF ~resp.read THEN Outcome(FALSE, TRUE)
    ELSE LET s == Unmarshal(resp.body) IN
         IF ~s.ok THEN Outcome(FALSE, TRUE)
         ELSE IF Len(s.Events) > 0 /\ s.Events[1] = preemptEventType
              THEN Outcome(TRUE, FALSE)
              ELSE Outcome(FALSE, FALSE)

azureCondition(resp) ==
    IF ~resp.net THEN Outcome(FALSE, TRUE)
    ELSE IF ~resp.read THEN Outcome(FALSE, TRUE)
    ELSE LET s == Unmarshal(resp.body) IN
         IF ~s.ok THEN Outcome(FALSE, TRUE)
         ELSE IF \E i \in 1..Len(s.Events) : s.Events[i] = preemptEventType
              THEN Outcome(TRUE, FALSE)
              ELSE Outcome(FALSE, FALSE)

condition(v, resp) ==
    CASE v = "aws" -> awsCondition(resp)
      [] v = "gcp" -> gcpCondition(resp)
      [] v = "azure" -> azureCondition(resp)

\* Where wait.PollImmediateUntil goes once condition() has returned:
\* an error or done ends the poll, otherwise the first call falls to the
\* select on the stop channel and a later call goes back to WaitFor's select.
\* Variant that goes on to reconciliation when condition() failed.
pollNext_ErrProceeds(out, first) ==
    IF out.err \/ out.done THEN "detected"
    ELSE IF first THEN "checkStop"
    ELSE "waitTick"

\* Variant that keeps polling when condition() failed.
pollNext_ErrContinues(out, first) ==
    IF out.done THEN "detected"
    ELSE IF first THEN "checkStop"
    ELSE "waitTick"

pollNext(out, first) ==
    IF out.err THEN "ret"
    ELSE IF out.done THEN "detected"
    ELSE IF first THEN "checkStop"
    ELSE "waitTick"

\* wait.PollImmediateUntil calls condition() at once, before any tick.
\* Variant that waits one interval before the first call (wait.PollUntil).
pollStart_WaitsFirst == "waitTick"

pollStart == "poll"

\* ------------------------------------------------------------------- Init
HandlerIdle ==
    /\ variant \in Variants
    /\ stop = FALSE
    /\ ctxDone = FALSE
    /\ errs = <<>>
    /\ wg = 0
    /\ runPC = "init"
    /\ runBranch = "none"
    /\ runResult = "none"
    /\ runReturns = 0
    /\ gPC = "idle"
    /\ gResult = "none"
    /\ hist = <<>>
    /\ probes = 0
    /\ ticks = 0
    /\ probesAfterDone = 0
    /\ stopEarly = FALSE
    /\ gets = 0
    /\ updates = 0

Init ==
    /\ HandlerIdle
    /\ reconcileCalls = 0
    /\ nodeConds \in ScenarioNodes
    /\ fetched = <<>>
    /\ node = <<>>
    /\ mergeTime = 0

nodeVars == <<nodeConds, fetched, node, mergeTime>>
runVars == <<runPC, runBranch, runResult, runReturns>>
countVars == <<probes, ticks, probesAfterDone, reconcileCalls, gets, updates>>

HasTerminating(h) == \E i \in 1..Len(h) : condition(variant, h[i]).done

\* The stop channel is closed by the signal handler, at any time.
StopFires ==
    /\ ~stop
    /\ stop' = TRUE
    /\ stopEarly' = ~HasTerminating(hist)
    /\ UNCHANGED <<variant, ctxDone, errs, wg, runVars, gPC, gResult, hist,
                   countVars, nodeVars>>

\* Run up to its select: context, errs channel, wg.Add(1), go func.
RunStart ==
    /\ runPC = "init"
    /\ runPC' = "select"
    /\ wg' = wg + 1
    /\ gPC' = pollStart
    /\ UNCHANGED <<variant, stop, ctxDone, errs, runBranch, runResult,
                   runReturns, gResult, hist, countVars, stopEarly, nodeVars>>

\* Variant of the stop branch that forgets cancel().
RunSelectStop_NoCancel ==
    /\ runPC = "select"
    /\ stop
    /\ runBranch' = "stop"
    /\ runPC' = "wait"
    /\ UNCHANGED <<variant, stop, ctxDone, errs, wg, runResult, runReturns, gPC,
                   gResult, hist, countVars, stopEarly, nodeVars>>

\* case <-stop: cancel(), then block in wg.Wait().
RunSelectStop ==
    /\ runPC = "select"
    /\ stop
    /\ ctxDone' = TRUE
    /\ runBranch' = "stop"
    /\ runPC' = "wait"
    /\ UNCHANGED <<variant, stop, errs, wg, runResult, runReturns, gPC,
                   gResult, hist, countVars, stopEarly, nodeVars>>

\* Variant of the stop branch that hands back the result of run.
RunWaitReturn_ReturnsErr ==
    /\ runPC = "wait"
    /\ wg = 0
    /\ runPC' = "returned"
    /\ runResult' = gResult
    /\ runReturns' = runReturns + 1
    /\ UNCHANGED <<variant, stop, ctxDone, errs, wg, runBranch, gPC, gResult,
                   hist, countVars, stopEarly, nodeVars>>

\* wg.Wait() returns; return nil.
RunWaitReturn ==
    /\ runPC = "wait"
    /\ wg = 0
    /\ runPC' = "returned"
    /\ runResult' = "nil"
    /\ runReturns' = runReturns + 1
    /\ UNCHANGED <<variant, stop, ctxDone, errs, wg, runBranch, gPC, gResult,
                   hist, countVars, stopEarly, nodeVars>>

\* Variant of the result branch that drops the received error.
RunSelectErrs_ReturnsNil ==
    /\ runPC = "select"
    /\ Len(errs) > 0
    /\ errs' = Tail(errs)
    /\ ctxDone' = TRUE
    /\ runBranch' = "errs"
    /\ runResult' = "nil"
    /\ runPC' = "returned"
    /\ runReturns' = runReturns + 1
    /\ UNCHANGED <<variant, stop, wg, gPC, gResult, hist, countVars,
                   stopEarly, nodeVars>>

\* case err := <-errs: cancel(); return err.
RunSelectErrs ==
    /\ runPC = "select"
    /\ Len(errs) > 0
    /\ errs' = Tail(errs)
    /\ ctxDone' = TRUE
    /\ runBranch' = "errs"
    /\ runResult' = Head(errs)
    /\ runPC' = "returned"
    /\ runReturns' = runReturns + 1
    /\ UNCHANGED <<variant, stop, wg, gPC, gResult, hist, countVars,
                   stopEarly, nodeVars>>

\* Variant that issues a request without waiting for the one outstanding.
ProbeStart_NoWait ==
    /\ gPC \in {"poll", "inflight"}
    /\ probes < MaxProbes
    /\ gPC' = "inflight"
    /\ probes' = probes + 1
    /\ probesAfterDone' = probesAfterDone + (IF ctxDone THEN 1 ELSE 0)
    /\ UNCHANGED <<variant, stop, ctxDone, errs, wg, runVars, gResult, hist,
                   ticks, reconcileCalls, gets, updates, stopEarly, nodeVars>>

\* condition() issues its HTTP request; the first call needs no tick.
ProbeStart ==
    /\ gPC = "poll"
    /\ probes < MaxProbes
    /\ gPC' = "inflight"
    /\ probes' = probes + 1
    /\ probesAfterDone' = probesAfterDone + (IF ctxDone THEN 1 ELSE 0)
    /\ UNCHANGED <<variant, stop, ctxDone, errs, wg, runVars, gResult, hist,
                   ticks, reconcileCalls, gets, updates, stopEarly, nodeVars>>

\* The request completes and condition() returns.
ProbeFinish ==
    /\ gPC = "inflight"
    /\ \E resp \in Responses(variant) :
         LET out == condition(variant, resp) IN
         /\ hist' = Append(hist, resp)
         /\ gPC' = pollNext(out, probes = 1)
         /\ gResult' = IF out.err THEN "ErrProbe" ELSE gResult
    /\ UNCHANGED <<variant, stop, ctxDone, errs, wg, runVars, countVars,
                   stopEarly, nodeVars>>

\* PollImmediateUntil after the first call: select { case <-stopCh: return
\* ErrWaitTimeout; default: PollUntil(...) }.
PollCheckStop ==
    /\ gPC = "checkStop"
    /\ IF ctxDone
       THEN gPC' = "ret" /\ gResult' = "ErrWaitTimeout"
       ELSE gPC' = "waitTick" /\ gResult' = gResult
    /\ UNCHANGED <<variant, stop, ctxDone, errs, wg, runVars, hist, countVars,
                   stopEarly, nodeVars>>

\* WaitFor's select, tick branch: the ticker fired, condition() is called.
PollTick ==
    /\ gPC = "waitTick"
    /\ probes < MaxProbes
    /\ ticks' = ticks + 1
    /\ gPC' = "poll"
    /\ UNCHANGED <<variant, stop, ctxDone, errs, wg, runVars, gResult, hist,
                   probes, probesAfterDone, reconcileCalls, gets, updates,
                   stopEarly, nodeVars>>

\* Variant in which a cancelled poll ends with no error.
PollCancelled_Clean ==
    /\ gPC = "waitTick"
    /\ ctxDone
    /\ gPC' = "ret"
    /\ gResult' = "nil"
    /\ UNCHANGED <<variant, stop, ctxDone, errs, wg, runVars, hist, countVars,
                   stopEarly, nodeVars>>

\* WaitFor's select, done branch: return ErrWaitTimeout.
PollCancelled ==
    /\ gPC = "waitTick"
    /\ ctxDone
    /\ gPC' = "ret"
    /\ gResult' = "ErrWaitTimeout"
    /\ UNCHANGED <<variant, stop, ctxDone, errs, wg, runVars, hist, countVars,
                   stopEarly, nodeVars>>

\* markNodeForDeletion is called and issues client.Get.
MarkNodeStart ==
    /\ gPC = "detected"
    /\ reconcileCalls' = reconcileCalls + 1
    /\ gets' = gets + 1
    /\ gPC' = "get"
    /\ UNCHANGED <<variant, stop, ctxDone, errs, wg, runVars, gResult, hist,
                   probes, ticks, probesAfterDone, updates, stopEarly,
                   nodeVars>>

\* Variant that fetches the node a second time after a failed fetch.
GetFails_Retries ==
    /\ gPC = "get"
    /\ IF gets < 2
       THEN gPC' = "get" /\ gets' = gets + 1 /\ gResult' = gResult
       ELSE gPC' = "ret" /\ gets' = gets /\ gResult' = "ErrFetch"
    /\ UNCHANGED <<variant, stop, ctxDone, errs, wg, runVars, hist, probes,
                   ticks, probesAfterDone, reconcileCalls, updates, stopEarly,
                   nodeVars>>

\* client.Get fails: markNodeForDeletion returns the fetch error.
GetFails ==
    /\ gPC = "get"
    /\ gPC' = "ret"
    /\ gResult' = "ErrFetch"
    /\ UNCHANGED <<variant, stop, ctxDone, errs, wg, runVars, hist, countVars,
                   stopEarly, nodeVars>>

\* client.Get succeeds: merge the condition, issue Status().Update.
GetSucceeds ==
    /\ gPC = "get"
    /\ \E now \in Times :
         /\ fetched' = nodeConds
         /\ node' = addNodeTerminationCondition(nodeConds, now)
         /\ mergeTime' = now
    /\ updates' = updates + 1
    /\ gPC' = "update"
    /\ UNCHANGED <<variant, stop, ctxDone, errs, wg, runVars, gResult, hist,
                   probes, ticks, probesAfterDone, reconcileCalls, gets,
                   stopEarly, nodeConds>>

\* Variant that drops the error of a failed status write.
UpdateFails_Swallowed ==
    /\ gPC = "update"
    /\ gPC' = "ret"
    /\ gResult' = "nil"
    /\ UNCHANGED <<variant, stop, ctxDone, errs, wg, runVars, hist, countVars,
                   stopEarly, nodeVars>>

\* Status().Update fails: markNodeForDeletion returns the update error.
UpdateFails ==
    /\ gPC = "update"
    /\ gPC' = "ret"
    /\ gResult' = "ErrUpdate"
    /\ UNCHANGED <<variant, stop, ctxDone, errs, wg, runVars, hist, countVars,
                   stopEarly, nodeVars>>

\* Status().Update succeeds: the server holds the merged conditions.
UpdateSucceeds ==
    /\ gPC = "update"
    /\ nodeConds' = node
    /\ gPC' = "ret"
    /\ gResult' = "nil"
    /\ UNCHANGED <<variant, stop, ctxDone, errs, wg, runVars, hist, countVars,
                   stopEarly, fetched, node, mergeTime>>

\* Order of the goroutine's last two steps: aws defers wg.Done() inside run,
\* so it precedes the send; gcp and azure defer it in the goroutine closure.
doneBeforeSend(v) == v = "aws"

\* errs <- h.run(ctx)
GoSend ==
    /\ gPC = IF doneBeforeSend(variant) THEN "send" ELSE "ret"
    /\ Len(errs) < ErrsCapacity
    /\ errs' = Append(errs, gResult)
    /\ gPC' = IF doneBeforeSend(variant) THEN "exited" ELSE "deferred"
    /\ UNCHANGED <<variant, stop, ctxDone, wg, runVars, gResult, hist,
                   countVars, stopEarly, nodeVars>>

\* wg.Done()
GoWgDone ==
    /\ gPC = IF doneBeforeSend(variant) THEN "ret" ELSE "deferred"
    /\ wg' = wg - 1
    /\ gPC' = IF doneBeforeSend(variant) THEN "send" ELSE "exited"
    /\ UNCHANGED <<variant, stop, ctxDone, errs, runVars, gResult, hist,
                   countVars, stopEarly, nodeVars>>

Next ==
    \/ StopFires
    \/ RunStart
    \/ RunSelectStop
    \/ RunWaitReturn
    \/ RunSelectErrs
    \/ ProbeStart
    \/ ProbeFinish
    \/ PollCheckStop
    \/ PollTick
    \/ PollCancelled
    \/ MarkNodeStart
    \/ GetFails
    \/ GetSucceeds
    \/ UpdateFails
    \/ UpdateSucceeds
    \/ GoSend
    \/ GoWgDone

Spec == Init /\ [][Next]_vars

\* Scheduling: main calls Run, both goroutines keep running while they have
\* a step, every outstanding HTTP or API call completes, and a select whose
\* done case stays ready eventually takes it.
Fairness ==
    /\ WF_vars(RunStart)
    /\ WF_vars(RunSelectStop)
    /\ WF_vars(RunSelectErrs)
    /\ WF_vars(RunWaitReturn)
    /\ WF_vars(ProbeStart)
    /\ WF_vars(ProbeFinish)
    /\ WF_vars(PollCheckStop)
    /\ SF_vars(PollCancelled)
    /\ WF_vars(MarkNodeStart)
    /\ WF_vars(GetFails \/ GetSucceeds)
    /\ WF_vars(UpdateFails \/ UpdateSucceeds)
    /\ WF_vars(GoSend)
    /\ WF_vars(GoWgDone)

FairSpec == Spec /\ Fairness

\* ------------------------------------------------------- the merge alone
\* markNodeForDeletion applied to every bounded condition sequence, and
\* again to its own result at a later time: fetch, merge, write.
MergeInit ==
    /\ HandlerIdle
    /\ reconcileCalls = 0
    /\ nodeConds \in AllCondSeqs
    /\ fetched = <<>>
    /\ node = <<>>
    /\ mergeTime = 0

MergeStep ==
    /\ reconcileCalls < MaxMerges
    /\ \E now \in Times :
         /\ now > mergeTime
         /\ fetched' = nodeConds
         /\ node' = addNodeTerminationCondition(nodeConds, now)
         /\ nodeConds' = addNodeTerminationCondition(nodeConds, now)
         /\ mergeTime' = now
    /\ reconcileCalls' = reconcileCalls + 1
    /\ UNCHANGED handlerVars

MergeNext == MergeStep

SpecMerge == MergeInit /\ [][MergeNext]_vars

\* ------------------------------------------------------------ properties
out(i) == condition(variant, hist[i])
HasError(h) == \E i \in 1..Len(h) : condition(variant, h[i]).err
IsError(e) == e \in {"ErrProbe", "ErrWaitTimeout", "ErrFetch", "ErrUpdate"}
EndedPCs == {"ret", "send", "deferred", "exited"}
TerminatingAt(conds) == {i \in 1..Len(conds) : conds[i].type = terminatingConditionType}
StaleAt(conds) == {i \in TerminatingAt(conds) : conds[i].status # "True"}

\* C1: markNodeForDeletion is called iff a probe of the run reported
\* terminating, at most once, and the terminating probe is the last probe
\* of the run (no probe is issued after it).
C1_ReconcileIffTerminating ==
    /\ reconcileCalls <= 1
    /\ reconcileCalls = 1 => Len(hist) > 0 /\ out(Len(hist)).done
    /\ HasTerminating(hist) => (gPC = "detected" /\ reconcileCalls = 0) \/ reconcileCalls = 1
    /\ \A i \in 1..Len(hist) : out(i).done => i = Len(hist) /\ probes = i

C1_Witness ==
    /\ stop
    /\ Len(hist) >= 2
    /\ reconcileCalls = 1
    /\ gPC = "exited"

\* C2 (as claimed): once the stop signal has fired with no terminating probe
\* observed, no reconciliation is attempted and Run returns nil.
C2_StopEarlyNilNoReconcile ==
    stopEarly => /\ reconcileCalls = 0
                 /\ runPC = "returned" => runResult = "nil"

\* C2 (amended): once the stop signal has fired with no terminating probe
\* observed, Run returns nil when it returns through the stop branch, and
\* reconciliation is attempted only if a later-completing probe reports
\* terminating.
C2_StopBranchNil ==
    stopEarly => /\ (runPC = "returned" /\ runBranch = "stop") => runResult = "nil"
                 /\ ~HasTerminating(hist) => reconcileCalls = 0

C2_Witness ==
    /\ stopEarly
    /\ runPC = "returned"
    /\ runBranch = "stop"
    /\ Len(hist) >= 1
    /\ gResult = "ErrWaitTimeout"
    /\ reconcileCalls = 0

\* C3 (as claimed): whenever the background unit ended with an error, Run
\* returns a non-nil error.
C3_EveryErrorReturned ==
    (runPC = "returned" /\ gPC \in EndedPCs /\ IsError(gResult)) => IsError(runResult)

\* C3 (amended): when Run returns through the result branch of its select,
\* which it does whenever the stop signal has not fired, it returns exactly
\* the result of the background unit, so every error of the unit is returned;
\* through the stop branch it returns nil.
C3_ResultBranchReturnsError ==
    runPC = "returned" =>
        /\ runBranch = "errs" => runResult = gResult /\ gPC \in EndedPCs
        /\ ~stop => runBranch = "errs"
        /\ runBranch = "stop" => runResult = "nil"

C3_Witness ==
    /\ runPC = "returned"
    /\ runBranch = "errs"
    /\ stop
    /\ runResult = "ErrUpdate"

\* C4: Run returns exactly once, and when it returns through the stop branch
\* cancellation has been requested and the goroutine has no step left.
C4_JoinBeforeReturn ==
    /\ runReturns <= 1
    /\ runPC = "returned" <=> runReturns = 1
    /\ (runPC = "returned" /\ runBranch = "stop") => ctxDone /\ gPC = "exited"

\* C5: while the stop signal has not fired, a run whose probes answered k
\* times not terminating and then terminating issued exactly k+1 probes, the
\* first with no tick and each other after one tick, and reconciles once.
C5_ProbeCount ==
    /\ (gPC = "inflight" /\ probes = 1) => ticks = 0
    /\ (~stop /\ HasTerminating(hist)) =>
          LET k == Len(hist) - 1 IN
          /\ \A i \in 1..k : ~out(i).done /\ ~out(i).err
          /\ probes = k + 1
          /\ ticks = k
          /\ reconcileCalls = IF gPC = "detected" THEN 0 ELSE 1

C5_Witness ==
    /\ ~stop
    /\ Len(hist) = 3
    /\ reconcileCalls = 1
    /\ runPC = "returned"

\* C6: after a probe returned an error no further probe is issued,
\* markNodeForDeletion is never called, run ends with the probe error and,
\* if the stop signal has not fired, Run returns a non-nil error.
C6_ProbeErrorAborts ==
    HasError(hist) =>
        /\ out(Len(hist)).err
        /\ probes = Len(hist)
        /\ reconcileCalls = 0
        /\ gets = 0
        /\ gPC \in EndedPCs
        /\ gResult = "ErrProbe"
        /\ (runPC = "returned" /\ ~stop) => IsError(runResult)

C6_Witness ==
    /\ Len(hist) >= 2
    /\ HasError(hist)
    /\ ~stop
    /\ runPC = "returned"
    /\ runResult = "ErrProbe"

\* C7: after reconciliation the node holds at most one Terminating condition.
C7_AtMostOneTerminating ==
    reconcileCalls >= 1 => Cardinality(TerminatingAt(nodeConds)) <= 1

\* C8: a Terminating condition with status True is left untouched by the
\* merge, a list whose Terminating conditions are all True is left as it is,
\* and merging the result of a merge again, at a later time, changes nothing.
C8_MergeIdempotent ==
    reconcileCalls >= 1 =>
        /\ \A i \in TerminatingAt(fetched) : fetched[i].status = "True" => node[i] = fetched[i]
        /\ (TerminatingAt(fetched) # {} /\ StaleAt(fetched) = {}) => node = fetched
        /\ reconcileCalls >= 2 => node = fetched /\ nodeConds = fetched

C8_Witness ==
    /\ reconcileCalls = 2
    /\ mergeTime = 2
    /\ \E i \in 1..Len(nodeConds) : nodeConds[i] = terminatingCondition(1)
    /\ \E i \in 1..Len(nodeConds) : nodeConds[i] = OldTerminating("True")

C10_AppendOnAbsence ==
    (reconcileCalls >= 1 /\ TerminatingAt(fetched) = {}) =>
        /\ Len(node) = Len(fetched) + 1
        /\ \A i \in 1..Len(fetched) : node[i] = fetched[i]
        /\ node[Len(node)].type = terminatingConditionType
        /\ node[Len(node)].status = "True"
        /\ TerminatingAt(node) = {Len(node)}

C10_Witness ==
    /\ reconcileCalls = 1
    /\ fetched = <<ReadyCond, DiskPressureCond>>
    /\ node = <<ReadyCond, DiskPressureCond, terminatingCondition(mergeTime)>>

LoopRunning == gPC \in {"poll", "inflight", "checkStop", "waitTick"}
NonTerminating(conds) == SelectSeq(conds, LAMBDA c : c.type # terminatingConditionType)
HasPreempt(body) ==
    \E i \in 1..Len(Unmarshal(body).Events) : Unmarshal(body).Events[i] = preemptEventType
SendPending == gPC = (IF doneBeforeSend(variant) THEN "send" ELSE "ret")

\* C11: a run that reached detection ends with nil exactly when the status
\* write succeeded and with an error on any reconciliation error; the stop
\* signal firing after detection does not make it a clean nil outcome.
C11_DetectedNeverCancelled ==
    (runPC = "returned" /\ HasTerminating(hist)) =>
        /\ gPC \in EndedPCs
        /\ runResult = "nil" <=> gResult = "nil"

\* C12 (as claimed): when the loop exits because it observed the
\* cancellation, run ends with no error and with no reconciliation.
C12_CancelledExitClean ==
    (gPC \in EndedPCs /\ ~HasTerminating(hist) /\ ~HasError(hist)) =>
        /\ gResult = "nil"
        /\ reconcileCalls = 0

\* C12 (amended): when the loop exits because it observed the cancellation,
\* run ends with the poll's timeout error and with no reconciliation, every
\* probe that was issued has completed, and Run, which is in its stop
\* branch, returns nil.
C12_CancelledExitTimeout ==
    (gPC \in EndedPCs /\ ~HasTerminating(hist) /\ ~HasError(hist)) =>
        /\ gResult = "ErrWaitTimeout"
        /\ reconcileCalls = 0
        /\ gets = 0
        /\ ctxDone
        /\ probes = Len(hist)
        /\ runBranch = "stop"
        /\ runPC = "returned" => runResult = "nil"

C12_Witness ==
    /\ gPC = "exited"
    /\ gResult = "ErrWaitTimeout"
    /\ probesAfterDone = 0
    /\ Len(hist) = 2
    /\ runPC = "returned"

\* C13: in variant aws a completed response with status 404 lets the loop go
\* on, status 200 ends it with detection, every other status ends it with
\* the probe error; only a 404 is ever followed by another probe.
C13_StatusCodeSignal ==
    variant = "aws" =>
        \A i \in 1..Len(hist) :
            hist[i].net =>
                /\ (~out(i).done /\ ~out(i).err) <=> hist[i].status = StatusNotFound
                /\ out(i).done <=> hist[i].status = StatusOK
                /\ out(i).err <=> hist[i].status \notin {StatusOK, StatusNotFound}
                /\ i < Len(hist) => hist[i].status = StatusNotFound
                /\ (i = Len(hist) /\ hist[i].status = StatusOK) =>
                       ~LoopRunning /\ gResult # "ErrProbe"
                /\ (i = Len(hist) /\ hist[i].status \notin {StatusOK, StatusNotFound}) =>
                       gPC \in EndedPCs /\ gResult = "ErrProbe" /\ reconcileCalls = 0
                /\ (i = Len(hist) /\ hist[i].status = StatusNotFound) =>
                       LoopRunning \/ gResult = "ErrWaitTimeout"

C13_Witness ==
    /\ variant = "aws"
    /\ Len(hist) = 2
    /\ hist[1].status = StatusNotFound
    /\ hist[2].status = 204
    /\ gResult = "ErrProbe"

\* C14: in variant azure a well-formed body is terminating iff one of its
\* events is Preempt, a malformed body is an error, and a Reboot-only answer
\* followed by a Preempt answer leads to exactly one reconciliation call.
C14_StructuredEventSignal ==
    variant = "azure" =>
        /\ \A i \in 1..Len(hist) :
              (hist[i].net /\ hist[i].read) =>
                  /\ out(i).err <=> ~Unmarshal(hist[i].body).ok
                  /\ out(i).done <=> (Unmarshal(hist[i].body).ok /\ HasPreempt(hist[i].body))
                  /\ (i = Len(hist) /\ HasPreempt(hist[i].body)) => ~LoopRunning /\ gResult # "ErrProbe"
                  /\ i < Len(hist) => Unmarshal(hist[i].body).ok /\ ~HasPreempt(hist[i].body)
        /\ (Len(hist) = 2 /\ hist[1].body = BodyReboot /\ hist[2].body = BodyPreempt
            /\ hist[2].net /\ hist[2].read /\ gPC # "detected") =>
               reconcileCalls = 1 /\ ticks = 1 /\ probes = 2

C14_Witness ==
    /\ variant = "azure"
    /\ Len(hist) = 2
    /\ hist[1].body = BodyReboot
    /\ hist[2].body = BodyPreempt
    /\ reconcileCalls = 1
    /\ gPC = "exited"

C14_WitnessSecondEvent ==
    /\ variant = "azure"
    /\ Len(hist) = 1
    /\ hist[1].body = BodyRebootPreempt
    /\ reconcileCalls = 1

\* C15: the node is fetched at most once and only after detection, the
\* status write is issued at most once and only after a successful fetch, a
\* failed fetch is followed by no write, and a failed fetch or write ends
\* run with an error.
C15_OneCycleNoRetry ==
    /\ gets <= 1
    /\ updates <= 1
    /\ reconcileCalls = gets
    /\ gets = 1 => HasTerminating(hist)
    /\ updates = 1 => gets = 1 /\ mergeTime > 0
    /\ (gets = 1 /\ mergeTime = 0 /\ gPC # "get") =>
           gPC \in EndedPCs /\ gResult = "ErrFetch" /\ updates = 0
    /\ (updates = 1 /\ gPC # "update") =>
           /\ gPC \in EndedPCs
           /\ gResult \in {"nil", "ErrUpdate"}
           /\ gResult = "nil" => nodeConds = node
           /\ gResult = "ErrUpdate" => nodeConds = fetched

C15_Witness ==
    /\ gets = 1
    /\ updates = 1
    /\ gResult = "ErrUpdate"
    /\ gPC = "exited"

C15_WitnessFetch ==
    /\ gets = 1
    /\ updates = 0
    /\ gResult = "ErrFetch"
    /\ gPC = "exited"

\* C16: the conditions of other types are the same, in the same order,
\* before and after the merge, and the length grows by one when there was
\* no Terminating condition and is unchanged otherwise.
C16_NoDataLoss ==
    reconcileCalls >= 1 =>
        /\ NonTerminating(node) = NonTerminating(fetched)
        /\ Len(node) = Len(fetched) + (IF TerminatingAt(fetched) = {} THEN 1 ELSE 0)

C16_Witness ==
    /\ reconcileCalls = 1
    /\ Len(fetched) = 3
    /\ Len(NonTerminating(fetched)) = 2
    /\ StaleAt(fetched) # {}
    /\ Len(node) = 3

\* C17: one background goroutine, at most one probe in flight, no probe in
\* flight while a fetch or status write is outstanding, and at most one
\* reconciliation.
C17_OneOutstanding ==
    /\ wg \in {0, 1}
    /\ runPC = "init" <=> gPC = "idle"
    /\ probes - Len(hist) \in {0, 1}
    /\ probes - Len(hist) = 1 <=> gPC = "inflight"
    /\ probes - Len(hist) = 1 => gets = 0 /\ reconcileCalls = 0
    /\ gPC \in {"get", "update"} => probes = Len(hist)
    /\ reconcileCalls <= 1

C17_Witness ==
    /\ gPC = "update"
    /\ probes = 3
    /\ Len(hist) = 3
    /\ stop

\* C18: under fair scheduling, with every outstanding call completing, once
\* the stop signal has fired Run eventually returns.
C18_StopLeadsToReturn == stop ~> (runPC = "returned")

C18_Witness ==
    /\ stop
    /\ runPC = "returned"
    /\ runBranch = "stop"
    /\ probesAfterDone >= 1

\* C19: the errs channel receives at most one value and the send never finds
\* it full, so once run has returned the goroutine runs to its end, also
\* after Run has returned.
C19_SendNeverBlocks ==
    /\ [](Len(errs) <= 1)
    /\ [](SendPending => Len(errs) < ErrsCapacity)
    /\ [](gPC \in {"deferred", "exited"} => Len(errs) + (IF runBranch = "errs" THEN 1 ELSE 0) = 1)
    /\ (gPC \in EndedPCs) ~> (gPC = "exited")

C19_Witness ==
    /\ runPC = "returned"
    /\ runBranch = "stop"
    /\ gPC = "exited"
    /\ Len(errs) = 1

\* C20: while the stop signal has not fired, Run returns nil only if a probe
\* reported terminating, the fetch succeeded and the status write succeeded;
\* Run never returns the timeout error of the cancelled poll.
C20_NilMeansCommitted ==
    runPC = "returned" =>
        /\ runResult # "ErrWaitTimeout"
        /\ (~stop /\ runResult = "nil") =>
               /\ HasTerminating(hist)
               /\ gets = 1
               /\ mergeTime > 0
               /\ updates = 1
               /\ nodeConds = node

C20_Witness ==
    /\ runPC = "returned"
    /\ ~stop
    /\ runResult = "nil"
    /\ nodeConds = <<ReadyCond, DiskPressureCond, terminatingCondition(mergeTime)>>
====
